---- MODULE Spec2Model ----
(***************************************************************************)
(* Model of the `versioned` crate (src/src/lib.rs): Versioned<T>, a        *)
(* wrapper holding a value of type T and a Version counter that is         *)
(* incremented on every mutable access to the value.                       *)
(*                                                                         *)
(* A cell is the record [value, version] (the tuple struct's fields .0 and *)
(* .1).  The crate's functions are operators on such records; the actions  *)
(* are the calls a safe Rust program can make on up to two cells.  The     *)
(* borrow of the &mut T that as_mut / deref_mut hand out is part of the    *)
(* state: while it is alive the caller may write through it and nothing    *)
(* else can touch the cell.                                                *)
(***************************************************************************)
EXTENDS Integers, FiniteSets, TLC

VARIABLES
    cells,            \* live cells: name -> [value, version]
    borrow,           \* per cell: "none", or "mut" while a &mut T is alive
    overflow_checks,  \* build profile: are arithmetic overflow checks compiled in
    panicked,         \* the thread has panicked
    ver0,             \* history: version each cell had when it was constructed
    grants,           \* history: mutable accesses granted to each cell
    cloned_from,      \* history: the cell each cell was cloned from, if any
    last,             \* history: the last call, its arguments and its result
    snap              \* a caller's remembered (version, value) observation

vars == <<cells, borrow, overflow_checks, panicked, ver0, grants, cloned_from, last, snap>>

----------------------------------------------------------------------------
(* Bounds of the model *)

\* Width of Version in bits (usize in the source; narrowed so that the
\* overflow of line 165 is reachable).
VersionBits == 2

\* T is modelled as the integers 0..MaxValue.
MaxValue == 2

\* Mutable accesses granted per cell.
MaxGrants == 4

----------------------------------------------------------------------------
(* Types and constants of the crate *)

Modulus == 2 ^ VersionBits

MaxVersion == Modulus - 1

Version == 0 .. MaxVersion

INITIAL_VERSION == 0

Values == 0 .. MaxValue

T_default == 0

Cells == {"a", "b"}

Live == DOMAIN cells

----------------------------------------------------------------------------
(* The crate's functions *)

\* Mutant: the constructor drops the version it was given.
with_version_unseeded(value, version) == [value |-> value, version |-> 0]

with_version(value, version) == [value |-> value, version |-> version]

new(value) == with_version(value, INITIAL_VERSION)

default == new(T_default)

default_with_version(version) == with_version(T_default, version)

\* Mutant: the clone keeps the version of its source.
clone_keeping_version(self) == [value |-> self.value, version |-> self.version]

clone(self) == new(self.value)

\* `impl Copy`: a copy is the bitwise copy of both fields.
copy(self) == [value |-> self.value, version |-> self.version]

version(self) == self.version

\* Mutant: read access is counted too.
as_ref_impl_counting(self) ==
    [self |-> [self EXCEPT !.version = (self.version + 1) % (2 ^ VersionBits)],
     ref |-> self.value]

as_ref_impl(self) == [self |-> self, ref |-> self.value]

\* Mutant: the counter moves only every other time (the access at an odd
\* version is not counted).
as_mut_impl_skipping(self, checks) ==
    IF self.version % 2 = 1
    THEN [self |-> self, panic |-> FALSE]
    ELSE [self |-> [self EXCEPT !.version = self.version + 1], panic |-> FALSE]

\* Mutant: mutable access is handed out without being counted.
as_mut_impl_uncounted(self, checks) == [self |-> self, panic |-> FALSE]

\* `self.1 += 1`: with overflow checks the addition panics before the store;
\* without them it wraps modulo 2^VersionBits.
as_mut_impl(self, checks) ==
    LET sum == self.version + 1
    IN  IF sum > MaxVersion /\ checks
        THEN [self |-> self, panic |-> TRUE]
        ELSE [self |-> [self EXCEPT !.version = sum % Modulus], panic |-> FALSE]

deref(self) == as_ref_impl(self)

\* Mutant: the mutable dereference bypasses the counter.
deref_mut_uncounted(self, checks) == [self |-> self, panic |-> FALSE]

deref_mut(self, checks) == as_mut_impl(self, checks)

as_ref(self) == as_ref_impl(self)

as_mut(self, checks) == as_mut_impl(self, checks)

----------------------------------------------------------------------------
(* History records *)

Call(op, cell, src, value, ver) ==
    [op |-> op, cell |-> cell, src |-> src, value |-> value, version |-> ver]

NoCall == Call("none", "-", "-", 0, 0)

NoSnap == [cell |-> "-", version |-> 0, value |-> 0, grants |-> 0]

ReadOps == {"as_ref", "deref", "version"}

MutOps == {"as_mut", "deref_mut"}

Put(f, c, x) == [d \in DOMAIN f \cup {c} |-> IF d = c THEN x ELSE f[d]]

----------------------------------------------------------------------------
(* Actions *)

\* A `let c = <constructor>` binding: cell c comes to life holding `made`.
Construct(c, made, call) ==
    /\ ~panicked
    /\ c \notin Live
    /\ cells' = Put(cells, c, made)
    /\ ver0' = [ver0 EXCEPT ![c] = made.version]
    /\ cloned_from' = [cloned_from EXCEPT ![c] = IF call.op = "clone" THEN call.src ELSE "-"]
    /\ last' = call
    /\ UNCHANGED <<borrow, overflow_checks, panicked, grants, snap>>

New(c, v) ==
    /\ c \notin Live
    /\ Construct(c, new(v), Call("new", c, "-", v, 0))

WithVersion(c, v, n) ==
    /\ c \notin Live
    /\ Construct(c, with_version(v, n), Call("with_version", c, "-", v, n))

Default(c) ==
    /\ c \notin Live
    /\ Construct(c, default, Call("default", c, "-", 0, 0))

DefaultWithVersion(c, n) ==
    /\ c \notin Live
    /\ Construct(c, default_with_version(n), Call("default_with_version", c, "-", 0, n))

\* `let d = s.clone()`: takes &s, so s must not be mutably borrowed.
Clone(s, d) ==
    /\ s \in Live
    /\ borrow[s] = "none"
    /\ Construct(d, clone(cells[s]), Call("clone", d, s, cells[s].value, 0))

\* `let d = s` for T: Copy.
Copy(s, d) ==
    /\ s \in Live
    /\ borrow[s] = "none"
    /\ Construct(d, copy(cells[s]), Call("copy", d, s, cells[s].value, cells[s].version))

\* A call taking &self; r is what the crate's function returns.
Read(c, op, r) ==
    /\ ~panicked
    /\ c \in Live
    /\ borrow[c] = "none"
    /\ cells' = [cells EXCEPT ![c] = r.self]
    /\ last' = Call(op, c, "-", r.ref, 0)
    /\ UNCHANGED <<borrow, overflow_checks, panicked, ver0, grants, cloned_from, snap>>

AsRef(c) == c \in Live /\ Read(c, "as_ref", as_ref(cells[c]))

Deref(c) == c \in Live /\ Read(c, "deref", deref(cells[c]))

\* `c.version()`.
VersionQuery(c) ==
    /\ ~panicked
    /\ c \in Live
    /\ borrow[c] = "none"
    /\ last' = Call("version", c, "-", 0, version(cells[c]))
    /\ UNCHANGED <<cells, borrow, overflow_checks, panicked, ver0, grants, cloned_from, snap>>

\* A call taking &mut self; r is what the crate's function does.  Unless it
\* panics the caller now holds the &mut T.
Grant(c, op, r) ==
    /\ ~panicked
    /\ c \in Live
    /\ borrow[c] = "none"
    /\ grants[c] < MaxGrants
    /\ cells' = [cells EXCEPT ![c] = r.self]
    /\ panicked' = r.panic
    /\ borrow' = IF r.panic THEN borrow ELSE [borrow EXCEPT ![c] = "mut"]
    /\ grants' = IF r.panic THEN grants ELSE [grants EXCEPT ![c] = @ + 1]
    /\ last' = Call(op, c, "-", 0, 0)
    /\ UNCHANGED <<overflow_checks, ver0, cloned_from, snap>>

AsMut(c) == c \in Live /\ Grant(c, "as_mut", as_mut(cells[c], overflow_checks))

DerefMut(c) == c \in Live /\ Grant(c, "deref_mut", deref_mut(cells[c], overflow_checks))

\* Mutant: a clone shares its payload with its source, so a store through
\* the clone's reference lands in both.
Write_shared(c, v) ==
    /\ ~panicked
    /\ c \in Live
    /\ borrow[c] = "mut"
    /\ cells' = [d \in Live |->
                    IF d = c \/ d = cloned_from[c] THEN [cells[d] EXCEPT !.value = v]
                    ELSE cells[d]]
    /\ last' = Call("write", c, "-", v, 0)
    /\ UNCHANGED <<borrow, overflow_checks, panicked, ver0, grants, cloned_from, snap>>

\* The caller assigns through the &mut T it holds (`*r = v`).
Write(c, v) ==
    /\ ~panicked
    /\ c \in Live
    /\ borrow[c] = "mut"
    /\ cells' = [cells EXCEPT ![c].value = v]
    /\ last' = Call("write", c, "-", v, 0)
    /\ UNCHANGED <<borrow, overflow_checks, panicked, ver0, grants, cloned_from, snap>>

\* The &mut T goes out of scope, written through or not.
Release(c) ==
    /\ ~panicked
    /\ c \in Live
    /\ borrow[c] = "mut"
    /\ borrow' = [borrow EXCEPT ![c] = "none"]
    /\ last' = Call("release", c, "-", 0, 0)
    /\ UNCHANGED <<cells, overflow_checks, panicked, ver0, grants, cloned_from, snap>>

----------------------------------------------------------------------------
(* Specification: any safe program over two cells, under either profile *)

Init ==
    /\ cells = [c \in {} |-> new(T_default)]
    /\ borrow = [c \in Cells |-> "none"]
    /\ overflow_checks \in BOOLEAN
    /\ panicked = FALSE
    /\ ver0 = [c \in Cells |-> 0]
    /\ grants = [c \in Cells |-> 0]
    /\ cloned_from = [c \in Cells |-> "-"]
    /\ last = NoCall
    /\ snap = NoSnap

Next ==
    \/ \E c \in Cells, v \in Values : New(c, v)
    \/ \E c \in Cells, v \in Values, n \in Version : WithVersion(c, v, n)
    \/ \E c \in Cells : Default(c)
    \/ \E c \in Cells, n \in Version : DefaultWithVersion(c, n)
    \/ \E s \in Cells, d \in Cells : Clone(s, d)
    \/ \E s \in Cells, d \in Cells : Copy(s, d)
    \/ \E c \in Cells : AsRef(c)
    \/ \E c \in Cells : Deref(c)
    \/ \E c \in Cells : VersionQuery(c)
    \/ \E c \in Cells : AsMut(c)
    \/ \E c \in Cells : DerefMut(c)
    \/ \E c \in Cells, v \in Values : Write(c, v)
    \/ \E c \in Cells : Release(c)

Spec == Init /\ [][Next]_vars

TypeOK ==
    /\ Live \subseteq Cells
    /\ \A c \in Live : cells[c].value \in Values /\ cells[c].version \in Version
    /\ borrow \in [Cells -> {"none", "mut"}]
    /\ overflow_checks \in BOOLEAN
    /\ panicked \in BOOLEAN
    /\ ver0 \in [Cells -> Version]
    /\ grants \in [Cells -> 0 .. MaxGrants]

----------------------------------------------------------------------------
(* Specification: a caller that remembers a version and compares it later *)

\* `let seen = c.version()` together with the value it stands for.
Observe(c) ==
    /\ ~panicked
    /\ c \in Live
    /\ borrow[c] = "none"
    /\ snap' = [cell |-> c, version |-> version(cells[c]),
                value |-> deref(cells[c]).ref, grants |-> grants[c]]
    /\ last' = Call("version", c, "-", 0, version(cells[c]))
    /\ UNCHANGED <<cells, borrow, overflow_checks, panicked, ver0, grants, cloned_from>>

InitObserve ==
    /\ \E v \in Values, n \in Version : cells = [c \in {"a"} |-> with_version(v, n)]
    /\ borrow = [c \in Cells |-> "none"]
    /\ overflow_checks \in BOOLEAN
    /\ panicked = FALSE
    /\ ver0 = [c \in Cells |-> IF c \in Live THEN cells[c].version ELSE 0]
    /\ grants = [c \in Cells |-> 0]
    /\ cloned_from = [c \in Cells |-> "-"]
    /\ last = NoCall
    /\ snap = NoSnap

NextObserve ==
    \/ \E c \in Cells : Observe(c)
    \/ \E c \in Cells : AsRef(c)
    \/ \E c \in Cells : Deref(c)
    \/ \E c \in Cells : AsMut(c)
    \/ \E c \in Cells : DerefMut(c)
    \/ \E c \in Cells, v \in Values : Write(c, v)
    \/ \E c \in Cells : Release(c)

SpecObserve == InitObserve /\ [][NextObserve]_vars

\* Number of times a counter that has been incremented up to x has overflowed.
Epoch(x) == x \div Modulus

----------------------------------------------------------------------------
(* Specification: one program run twice, cell "a" accessed through the     *)
(* explicit accessors (as_ref, as_mut) and cell "b" through the            *)
(* dereferences (deref, deref_mut) that `&cell` and `&mut cell` coerce to  *)

\* `look_at(cell.as_ref())` beside `look_at(&cell)`.
PairRead ==
    /\ ~panicked
    /\ borrow["a"] = "none"
    /\ LET ra == as_ref(cells["a"])
           rb == deref(cells["b"])
       IN  /\ cells' = [cells EXCEPT !["a"] = ra.self, !["b"] = rb.self]
           /\ last' = Call("deref", "b", "a", rb.ref, ra.ref)
    /\ UNCHANGED <<borrow, overflow_checks, panicked, ver0, grants, cloned_from, snap>>

\* `modify(cell.as_mut())` beside `modify(&mut cell)`, up to the grant.
PairGrant ==
    /\ ~panicked
    /\ borrow["a"] = "none"
    /\ grants["a"] < MaxGrants
    /\ LET ra == as_mut(cells["a"], overflow_checks)
           rb == deref_mut(cells["b"], overflow_checks)
           out == [c \in Cells |-> IF c = "a" THEN ra ELSE rb]
       IN  /\ cells' = [c \in Cells |-> out[c].self]
           /\ panicked' = (ra.panic \/ rb.panic)
           /\ borrow' = [c \in Cells |-> IF out[c].panic THEN borrow[c] ELSE "mut"]
           /\ grants' = [c \in Cells |-> IF out[c].panic THEN grants[c] ELSE grants[c] + 1]
    /\ last' = Call("deref_mut", "b", "a", 0, 0)
    /\ UNCHANGED <<overflow_checks, ver0, cloned_from, snap>>

\* The callee writes through the reference it was given, in both runs.
PairWrite(v) ==
    /\ ~panicked
    /\ borrow["a"] = "mut"
    /\ cells' = [c \in Cells |-> [cells[c] EXCEPT !.value = v]]
    /\ last' = Call("write", "b", "a", v, 0)
    /\ UNCHANGED <<borrow, overflow_checks, panicked, ver0, grants, cloned_from, snap>>

\* The callee returns, in both runs.
PairRelease ==
    /\ ~panicked
    /\ borrow["a"] = "mut"
    /\ borrow' = [c \in Cells |-> "none"]
    /\ last' = Call("release", "b", "a", 0, 0)
    /\ UNCHANGED <<cells, overflow_checks, panicked, ver0, grants, cloned_from, snap>>

InitCoercion ==
    /\ \E v \in Values, n \in Version : cells = [c \in Cells |-> with_version(v, n)]
    /\ borrow = [c \in Cells |-> "none"]
    /\ overflow_checks \in BOOLEAN
    /\ panicked = FALSE
    /\ ver0 = [c \in Cells |-> cells[c].version]
    /\ grants = [c \in Cells |-> 0]
    /\ cloned_from = [c \in Cells |-> "-"]
    /\ last = NoCall
    /\ snap = NoSnap

NextCoercion ==
    \/ PairRead
    \/ PairGrant
    \/ \E v \in Values : PairWrite(v)
    \/ PairRelease

SpecCoercion == InitCoercion /\ [][NextCoercion]_vars

----------------------------------------------------------------------------
(* Properties *)

\* C1: as long as the counter has not overflowed, a cell that has been
\* granted mutable access k times (through as_mut or deref_mut, written
\* through or not) has the version it was constructed with plus k.
C1_GrantsAreCounted ==
    \A c \in Live :
        ver0[c] + grants[c] <= MaxVersion => version(cells[c]) = ver0[c] + grants[c]

\* C1 witness: a cell made by a constructor with version 0 has been granted
\* access three times, the last grant not yet used, and is at version 3.
C1_ThreeGrants ==
    \E c \in Live :
        /\ ver0[c] = INITIAL_VERSION
        /\ grants[c] = 3
        /\ version(cells[c]) = 3
        /\ last.op = "as_mut" /\ last.cell = c
        /\ cells[c].value # T_default

\* C2: a step that is a read (as_ref, deref, version) leaves every cell's
\* value and version, the borrows and the panic flag as they were.
C2_ReadsChangeNothing ==
    [][last'.op \in ReadOps =>
          /\ cells' = cells
          /\ borrow' = borrow
          /\ panicked' = panicked]_vars

\* C2 witness: a dereference has just returned the value of a cell that was
\* mutated before, and its version still counts only the grants.
C2_ReadAfterMutation ==
    /\ last.op = "deref"
    /\ last.cell \in Live
    /\ grants[last.cell] = 2
    /\ last.value = cells[last.cell].value
    /\ version(cells[last.cell]) = ver0[last.cell] + 2

\* C3: a mutable access requested on a cell whose version is the maximum
\* panics and does not leave the cell with version 0.
C3_OverflowIsFatal ==
    [][\A c \in Live :
          (last'.op \in MutOps /\ last'.cell = c /\ cells[c].version = MaxVersion)
              => (panicked' /\ cells'[c].version # 0)]_vars

\* C4: a clone step makes a cell with version INITIAL_VERSION and the value
\* its source holds, and leaves the source as it was.
C4_CloneResetsVersion ==
    [][last'.op = "clone" =>
          /\ cells'[last'.cell].version = INITIAL_VERSION
          /\ cells'[last'.cell].value = cells[last'.src].value
          /\ cells'[last'.src] = cells[last'.src]]_vars

\* C4 witness: a cell with version above 0 has just been cloned; the clone
\* is at version 0 and the source is not.
C4_ClonedAtPositiveVersion ==
    /\ last.op = "clone"
    /\ cells[last.src].version > 0
    /\ cells[last.cell].version = 0
    /\ cells[last.cell].value = cells[last.src].value

\* C5: the cell a copy has just made is the cell a clone of the same source
\* would be (the source is untouched by the copy).
C5_CopyIsClone ==
    last.op = "copy" => cells[last.cell] = clone(cells[last.src])

\* C6: right after a constructor the new cell holds the requested value (or
\* T's default) and the requested version (or INITIAL_VERSION).
C6_ConstructorsYieldRequested ==
    /\ last.op = "new" =>
          cells[last.cell] = [value |-> last.value, version |-> INITIAL_VERSION]
    /\ last.op = "with_version" =>
          cells[last.cell] = [value |-> last.value, version |-> last.version]
    /\ last.op = "default" =>
          cells[last.cell] = [value |-> T_default, version |-> INITIAL_VERSION]
    /\ last.op = "default_with_version" =>
          cells[last.cell] = [value |-> T_default, version |-> last.version]

\* C6 witness: with_version has just been called with a value other than
\* the default and a version other than the initial one.
C6_SeededConstruction ==
    /\ last.op = "with_version"
    /\ last.value # T_default
    /\ last.version = MaxVersion
    /\ cells[last.cell].version = MaxVersion

\* C7: in every step every cell's version stays or goes up by exactly 1, and
\* it goes up only in a step that grants mutable access to that cell.
C7_VersionNeverDecreases ==
    [][\A c \in Live :
          \/ cells'[c].version = cells[c].version
          \/ /\ cells'[c].version = cells[c].version + 1
             /\ last'.op \in MutOps
             /\ last'.cell = c]_vars

\* C8: the run that uses deref / deref_mut and the run that uses as_ref /
\* as_mut are in the same state after every access: same value, same
\* version, same outstanding borrow, same number of grants.
C8_CoercionMatchesExplicit ==
    /\ cells["a"] = cells["b"]
    /\ borrow["a"] = borrow["b"]
    /\ grants["a"] = grants["b"]

\* C8 witness: after two mutable dereferences, one of them written through,
\* both runs are one past the seed version twice and hold the written value.
C8_TwoCoercedGrants ==
    /\ last.op = "release"
    /\ grants["b"] = 2
    /\ ver0["b"] + 2 <= MaxVersion
    /\ version(cells["b"]) = ver0["b"] + 2
    /\ version(cells["a"]) = ver0["a"] + 2
    /\ cells["b"].value # T_default

\* C9: when no mutable borrow is outstanding and the version equals the one
\* a caller remembered, with no overflow of the counter since, the value is
\* the one the cell held when the version was remembered.
C9_SameVersionSameValue ==
    \A c \in Live :
        ( /\ snap.cell = c
          /\ borrow[c] = "none"
          /\ Epoch(ver0[c] + snap.grants) = Epoch(ver0[c] + grants[c])
          /\ version(cells[c]) = snap.version )
        => cells[c].value = snap.value

\* C9 witness: a version remembered after a mutation is found unchanged
\* after later reads, and the value is the remembered one.
C9_VersionUnchangedLater ==
    /\ snap.cell \in Live
    /\ last.op = "deref" /\ last.cell = snap.cell
    /\ snap.grants > 0
    /\ version(cells[snap.cell]) = snap.version
    /\ cells[snap.cell].value = snap.value
    /\ snap.value # T_default

\* C10: a step on one cell (a clone's or copy's new cell included) leaves
\* every other live cell's value and version as they were.
C10_CellsAreIndependent ==
    [][\A c \in Live :
          last'.cell # c => (c \in DOMAIN cells' /\ cells'[c] = cells[c])]_vars

\* C10 witness: a clone and its source have both been written through since
\* the clone, they have equal versions and hold different values.
C10_CloneDiverged ==
    \E a \in Live, b \in Live :
        /\ cloned_from[b] = a
        /\ last.op = "write" /\ last.cell = b
        /\ grants[a] > 0
        /\ grants[b] > 0
        /\ version(cells[a]) = version(cells[b])
        /\ cells[a].value # cells[b].value

====
